---- MODULE Spec2Model ----
(***************************************************************************)
(* Model of salience_function_metrics.ipynb: the notebook's global         *)
(* `gtfile`, the function compute_salience_metrics and its per-frame loop. *)
(*                                                                         *)
(* Numbers.  Salience values are non-negative numbers; they are modelled   *)
(* as naturals on an arbitrary common scale (every score is a ratio of     *)
(* them).  A numpy float division a/b is modelled exactly, as the pair     *)
(* <<a, b>> (numerator, denominator); a pair with denominator 0 is what    *)
(* numpy returns for a division by zero: nan for 0/0, inf for a/0, a > 0.  *)
(*                                                                         *)
(* Frequencies.  A frequency is modelled on a logarithmic grid with Res    *)
(* steps per salience bin: the code h >= 1 stands for the frequency        *)
(* 55 * 2^((h-1)/(120*Res)) Hz, and a code h <= 0 stands for a frequency   *)
(* that is <= 0 Hz (an unvoiced ground-truth frame).  Bins are numbered    *)
(* from 0 as in the code.                                                  *)
(***************************************************************************)
EXTENDS Integers, Sequences, FiniteSets, TLC

\* ---- bounds of the pipeline specification (Spec, SpecGlobal)
\* at most MaxFrames frames of at most NBins bins, MaxCells values in all
MaxFrames == 2
NBins == 2
MaxCells == 4
MaxVal == 2
MaxFreq == 1
\* ---- bounds of the single-frame specification (SpecFrame)
FrameBins == 4
FrameMaxFreq == 2
FrameVals == {0, 3, 4, 5, 9}
FrameValsClose == {0, 1, 8, 9}
\* ---- resolution of the frequency grid, in steps per salience bin
Res == 2

\* ---- program constants
BinsPerOctave == 120
CentsPerOctave == 1200

Undefined == "undefined"

\* exceptions: the two the interpreter raises on an unbound name, and the
\* exceptions of the collaborators (read_csv / resample_melody_series, find_peaks_cwt)
NoError == "none"
UnboundLocalError == "UnboundLocalError"
NameError == "NameError"
LoadError == "LoadError"
DetectorError == "DetectorError"

\* the values of the argument saltype: the two known ones and any other string
Saltypes == {"melodia", "durrieu", "other"}

VARIABLES
  sal,          \* salience.values[:,1:]: sequence of frames, frame = [bin -> value]
  peaks,        \* peaks[i]: what find_peaks_cwt returns for frame i
  fails,        \* the frames for which find_peaks_cwt raises instead of returning
  gtfiles,      \* ground-truth files on disk: path -> resampled frequency series
  unreadable,   \* the ground-truth files whose loading or resampling raises
  saltypes,     \* the values of saltype that the callers pass
  gtfile,       \* the notebook's global variable gtfile
  gt_file,      \* the argument gt_file of the call
  saltype,      \* the argument saltype of the call
  sal_sep,      \* local: the delimiter bound by the setup, if any
  pc,           \* "idle", "loop", "done", "error"
  err,          \* the exception the call raised to its caller, if any
  returned,     \* what the caller received: <<>> (nothing) or the four lists
  n,            \* loop index (1-based position of the frame being visited)
  gt_sal_freq,  \* local: the resampled ground truth the call loaded
  dfs, rrs, s1s, s3s

vars == <<sal, peaks, fails, gtfiles, unreadable, saltypes, gtfile, gt_file, saltype, sal_sep,
          pc, err, returned, n, gt_sal_freq, dfs, rrs, s1s, s3s>>

\* what the call never changes: the files, the collaborators' behaviour and
\* the callers' choice of formats
inputs == <<sal, peaks, fails, gtfiles, unreadable, saltypes>>

\* ---------------------------------------------------------------- arithmetic
Abs(x) == IF x < 0 THEN 0 - x ELSE x

\* numpy true division of two numbers
Div(a, b) == <<a, b>>

IsNan(q) == q[2] = 0 /\ q[1] = 0
IsInf(q) == q[2] = 0 /\ q[1] # 0
IsFinite(q) == q[2] # 0
\* comparisons of finite quotients with positive denominators
QEq(p, q) == IsFinite(p) /\ IsFinite(q) /\ p[1] * q[2] = q[1] * p[2]
QLess(p, q) == IsFinite(p) /\ IsFinite(q) /\ p[1] * q[2] < q[1] * p[2]

RECURSIVE Sum(_)
Sum(s) == IF s = <<>> THEN 0 ELSE Head(s) + Sum(Tail(s))

\* np.mean
Mean(s) == Div(Sum(s), Len(s))

\* x / m for a number x and a quotient m
DivBy(x, m) == Div(x * m[2], m[1])

\* ---------------------------------------------------------------- bin <-> frequency
salbin2freq(bin) == bin * Res + 1

freq2salbin(freq) == Div(freq - 1, Res)

\* np.abs(1200*np.log2(f1/f2)) for two frequencies f1, f2 > 0
Cents(f1, f2) == Div(CentsPerOctave * Abs(f1 - f2), BinsPerOctave * Res)

\* ---------------------------------------------------------------- per-frame computation
\* variant of Voiced: the test written as >= 0
VoicedNonNegative(freq) == freq >= 0

Voiced(freq) == freq > 0

HasPeaks(plocs) == Len(plocs) > 0

\* pvals = frame[plocs]
Pvals(frame, plocs) == [i \in 1..Len(plocs) |-> frame[plocs[i]]]

\* diffs = np.abs(np.asarray(plocs) - freq2salbin(freq))
Diffs(plocs, freq) ==
  LET t == freq2salbin(freq)
  IN  [i \in 1..Len(plocs) |-> Div(Abs(plocs[i] * t[2] - t[1]), t[2])]

\* variant of ArgMin: the last position holding the minimum
ArgMinLast(d) ==
  CHOOSE i \in 1..Len(d) :
    /\ \A j \in 1..Len(d) : ~QLess(d[j], d[i])
    /\ \A j \in (i + 1)..Len(d) : QLess(d[i], d[j])

\* np.argmin: the first position holding the minimum
ArgMin(d) ==
  CHOOSE i \in 1..Len(d) :
    /\ \A j \in 1..Len(d) : ~QLess(d[j], d[i])
    /\ \A j \in 1..(i-1) : QLess(d[i], d[j])

ClosestBin(plocs, freq) == plocs[ArgMin(Diffs(plocs, freq))]

RECURSIVE Insert(_, _)
Insert(x, s) ==
  IF s = <<>> THEN <<x>>
  ELSE IF x <= Head(s) THEN <<x>> \o s
  ELSE <<Head(s)>> \o Insert(x, Tail(s))

\* pvals[np.argsort(pvals)]: the values in ascending order
RECURSIVE Sorted(_)
Sorted(s) == IF s = <<>> THEN <<>> ELSE Insert(Head(s), Sorted(Tail(s)))

\* np.where(pvals_sorted==closest_val)[0][0], as a 0-based index
WhereFirst(pvals_sorted, closest_val) ==
  (CHOOSE i \in 1..Len(pvals_sorted) :
     /\ pvals_sorted[i] = closest_val
     /\ \A j \in 1..(i-1) : pvals_sorted[j] # closest_val) - 1

\* variant of Rank: the position counted from 0 (len - 1 - index)
RankOffByOne(pvals, closest_val) ==
  Len(pvals) - 1 - WhereFirst(Sorted(pvals), closest_val)

\* variant of Rank: the position in the ascending order (index + 1)
RankAscending(pvals, closest_val) == WhereFirst(Sorted(pvals), closest_val) + 1

\* variant of Rank: a tied melody peak gets the best rank of its group
\* (the last index holding closest_val instead of the first)
RankTiesBest(pvals, closest_val) ==
  LET s == Sorted(pvals)
      last == CHOOSE i \in 1..Len(s) :
                s[i] = closest_val /\ \A j \in (i + 1)..Len(s) : s[j] # closest_val
  IN  Len(pvals) - (last - 1)

Rank(pvals, closest_val) == Len(pvals) - WhereFirst(Sorted(pvals), closest_val)

RR(rank) == Div(1, rank)

\* np.max
Max(s) == CHOOSE x \in {s[i] : i \in 1..Len(s)} : \A i \in 1..Len(s) : s[i] <= x

\* variant of S1: the ratio taken the other way round
S1Inverted(pvals, closest_val) == Div(Max(pvals), closest_val)

\* variant of S1: normalised by pvals_sorted[0], the smallest value
S1OverMin(pvals, closest_val) == Div(closest_val, Sorted(pvals)[1])

S1(pvals, closest_val) == Div(closest_val, Max(pvals))

\* pvals_sorted[-3:]
Last3(s) == SubSeq(s, Len(s) - 2, Len(s))

\* variant of S3: averages pvals_sorted[:3], the three smallest values
S3FirstThree(pvals_sorted, closest_val) ==
  IF Len(pvals_sorted) >= 3
  THEN DivBy(closest_val, Mean(SubSeq(pvals_sorted, 1, 3)))
  ELSE DivBy(closest_val, Mean(pvals_sorted))

\* variant of S3: averages all the values whatever their number
S3MeanAll(pvals_sorted, closest_val) == DivBy(closest_val, Mean(pvals_sorted))

\* variant of S3: divides by the largest value alone
S3OverMax(pvals_sorted, closest_val) ==
  Div(closest_val, pvals_sorted[Len(pvals_sorted)])

S3(pvals_sorted, closest_val) ==
  IF Len(pvals_sorted) >= 3
  THEN DivBy(closest_val, Mean(Last3(pvals_sorted)))
  ELSE DivBy(closest_val, Mean(pvals_sorted))

\* the four scores of one voiced frame with at least one peak
FrameDf(plocs, freq) == Cents(salbin2freq(ClosestBin(plocs, freq)), freq)
ClosestVal(frame, plocs, freq) == frame[ClosestBin(plocs, freq)]
FrameRr(frame, plocs, freq) == RR(Rank(Pvals(frame, plocs), ClosestVal(frame, plocs, freq)))
FrameS1(frame, plocs, freq) == S1(Pvals(frame, plocs), ClosestVal(frame, plocs, freq))
FrameS3(frame, plocs, freq) == S3(Sorted(Pvals(frame, plocs)), ClosestVal(frame, plocs, freq))

\* ---------------------------------------------------------------- inputs
RECURSIVE Ascending(_)
Ascending(S) ==
  IF S = {} THEN <<>>
  ELSE LET m == CHOOSE x \in S : \A y \in S : x <= y
       IN  <<m>> \o Ascending(S \ {m})

\* find_peaks_cwt returns zero or more distinct bin indices, in ascending order;
\* the detector is an external routine, so which indices it returns for a frame
\* is an input (PeaksPossible states the one thing assumed of it)
PeakLists(bins) == {Ascending(S) : S \in SUBSET (0..(bins - 1))}

Frames(bins, vals) == [0..(bins - 1) -> vals]

Freqs(maxfreq) == (0 - 1)..maxfreq

\* a peak of the wavelet transform lies on salience or between salience: the
\* detector reports a bin whose value is 0 only when the frame has positive
\* values on both sides of it (so an all-zero frame has no peak)
PeaksPossible(frame, plocs) ==
  \A i \in 1..Len(plocs) :
    frame[plocs[i]] = 0 =>
      /\ \E b \in DOMAIN frame : b < plocs[i] /\ frame[b] > 0
      /\ \E b \in DOMAIN frame : b > plocs[i] /\ frame[b] > 0

\* shapes: the possible <<number of frames, number of bins>> of the salience matrix
InitWith(shapes, vals, maxfreq, paths, types) ==
  /\ \E shape \in shapes :
       LET k == shape[1]
           bins == shape[2]
       IN
       /\ sal \in [1..k -> Frames(bins, vals)]
       /\ peaks \in [1..k -> PeakLists(bins)]
       /\ \A i \in 1..k : PeaksPossible(sal[i], peaks[i])
       /\ fails \in SUBSET (1..k)
       /\ \A i \in fails : peaks[i] = <<>>
       /\ gtfiles \in [paths -> [1..k -> Freqs(maxfreq)]]
       /\ unreadable \in SUBSET paths
       /\ \A p \in unreadable : gtfiles[p] = [i \in 1..k |-> 0]
  /\ saltypes = types
  /\ gtfile = Undefined
  /\ gt_file = Undefined
  /\ saltype = Undefined
  /\ sal_sep = Undefined
  /\ pc = "idle"
  /\ err = NoError
  /\ returned = <<>>
  /\ n = 0
  /\ gt_sal_freq = <<>>
  /\ dfs = <<>> /\ rrs = <<>> /\ s1s = <<>> /\ s3s = <<>>

\* a salience file may also parse to no row at all
Shapes == {sh \in (0..MaxFrames) \X (1..NBins) : sh[1] * sh[2] <= MaxCells}

\* several frames over a small alphabet, one ground-truth file, callers that
\* pass 'melodia' or an unknown format
Init == InitWith(Shapes, 0..MaxVal, MaxFreq, {"A"}, {"melodia", "other"})

\* two ground-truth files, salience frames of one bin, every format
InitGlobal ==
  InitWith({sh \in Shapes : sh[2] = 1}, 0..MaxVal, MaxFreq, {"A", "B"}, Saltypes)

\* one frame over a rich alphabet
InitFrame ==
  InitWith({<<0, FrameBins>>, <<1, FrameBins>>}, FrameVals, FrameMaxFreq, {"A"},
           {"melodia", "other"})

\* one frame over an alphabet with two close large values, callers that pass
\* 'durrieu' or an unknown format
InitFrameClose ==
  InitWith({<<0, FrameBins>>, <<1, FrameBins>>}, FrameValsClose, FrameMaxFreq, {"A"},
           {"durrieu", "other"})

\* ---------------------------------------------------------------- operations
\* the example-use cell that assigns the global gtfile
DefineGtfile ==
  /\ pc = "idle"
  /\ gtfile = Undefined
  /\ \E p \in DOMAIN gtfiles : gtfile' = p
  /\ UNCHANGED <<inputs, gt_file, saltype, sal_sep, pc, err, returned, n, gt_sal_freq,
                 dfs, rrs, s1s, s3s>>

\* variant of SalSep: an else branch binds the comma
SalSepDefault(st) == IF st = "durrieu" THEN "\\s*" ELSE ","

\* the setup of the call: the delimiter that `if saltype == ... elif ...` binds
SalSep(st) ==
  IF st = "melodia" THEN "," ELSE IF st = "durrieu" THEN "\\s*" ELSE Undefined

\* the arguments of a call
Args ==
  /\ \E p \in DOMAIN gtfiles : gt_file' = p
  /\ \E st \in saltypes : saltype' = st
  /\ sal_sep' = SalSep(saltype')

\* a call that raises before its loop: nothing is returned
Raise(e) ==
  /\ pc' = "error"
  /\ err' = e
  /\ UNCHANGED <<inputs, gtfile, returned, n, gt_sal_freq, dfs, rrs, s1s, s3s>>

\* compute_salience_metrics(salience_file, gt_file, saltype): load, resample, initialise
Call ==
  /\ pc = "idle"
  /\ Args
  /\ sal_sep' # Undefined
  /\ gtfile # Undefined
  /\ gtfile \notin unreadable
  /\ gt_sal_freq' = gtfiles[gtfile]
  /\ dfs' = <<>> /\ rrs' = <<>> /\ s1s' = <<>> /\ s3s' = <<>>
  /\ n' = 1
  /\ pc' = "loop"
  /\ UNCHANGED <<inputs, gtfile, err, returned>>

\* the call with a saltype that binds no delimiter: the first read_csv raises
CallUnboundSep ==
  /\ pc = "idle"
  /\ Args
  /\ sal_sep' = Undefined
  /\ Raise(UnboundLocalError)

\* read_csv may itself raise on a salience file without rows; when it does
\* not, the function has no test of its own and Call goes on with no frame
CallEmptyInput ==
  /\ pc = "idle"
  /\ Args
  /\ sal_sep' # Undefined
  /\ sal = <<>>
  /\ Raise(LoadError)

\* the call when the global gtfile is not defined: NameError
CallNameError ==
  /\ pc = "idle"
  /\ Args
  /\ sal_sep' # Undefined
  /\ gtfile = Undefined
  /\ Raise(NameError)

\* the call when loading or resampling the ground truth raises
CallLoadError ==
  /\ pc = "idle"
  /\ Args
  /\ sal_sep' # Undefined
  /\ gtfile # Undefined
  /\ gtfile \in unreadable
  /\ Raise(LoadError)

\* variant of DetectorRaises: the exception is caught and the lists built so
\* far are returned
DetectorRaisesCaught ==
  /\ pc = "loop"
  /\ n <= Len(sal)
  /\ Voiced(gt_sal_freq[n])
  /\ n \in fails
  /\ pc' = "done"
  /\ returned' = <<dfs, rrs, s1s, s3s>>
  /\ UNCHANGED <<inputs, gtfile, gt_file, saltype, sal_sep, err, n, gt_sal_freq,
                 dfs, rrs, s1s, s3s>>

\* find_peaks_cwt raises on a voiced frame: the exception leaves the call
DetectorRaises ==
  /\ pc = "loop"
  /\ n <= Len(sal)
  /\ Voiced(gt_sal_freq[n])
  /\ n \in fails
  /\ pc' = "error"
  /\ err' = DetectorError
  /\ UNCHANGED <<inputs, gtfile, gt_file, saltype, sal_sep, returned, n, gt_sal_freq,
                 dfs, rrs, s1s, s3s>>

SkipUnvoiced ==
  /\ pc = "loop"
  /\ n <= Len(sal)
  /\ ~Voiced(gt_sal_freq[n])
  /\ n' = n + 1
  /\ UNCHANGED <<inputs, gtfile, gt_file, saltype, sal_sep, pc, err, returned, gt_sal_freq,
                 dfs, rrs, s1s, s3s>>

\* variant of SkipNoPeaks: a frame without peaks is given a reciprocal rank of 0
SkipNoPeaksAppends ==
  /\ pc = "loop"
  /\ n <= Len(sal)
  /\ Voiced(gt_sal_freq[n])
  /\ n \notin fails
  /\ ~HasPeaks(peaks[n])
  /\ rrs' = Append(rrs, Div(0, 1))
  /\ n' = n + 1
  /\ UNCHANGED <<inputs, gtfile, gt_file, saltype, sal_sep, pc, err, returned, gt_sal_freq,
                 dfs, s1s, s3s>>

SkipNoPeaks ==
  /\ pc = "loop"
  /\ n <= Len(sal)
  /\ Voiced(gt_sal_freq[n])
  /\ n \notin fails
  /\ ~HasPeaks(peaks[n])
  /\ n' = n + 1
  /\ UNCHANGED <<inputs, gtfile, gt_file, saltype, sal_sep, pc, err, returned, gt_sal_freq,
                 dfs, rrs, s1s, s3s>>

\* variant of ScoreFrame: s3s.append sits inside the `>= 3` branch
ScoreFrameDropS3 ==
  /\ pc = "loop"
  /\ n <= Len(sal)
  /\ Voiced(gt_sal_freq[n])
  /\ n \notin fails
  /\ HasPeaks(peaks[n])
  /\ dfs' = Append(dfs, FrameDf(peaks[n], gt_sal_freq[n]))
  /\ rrs' = Append(rrs, FrameRr(sal[n], peaks[n], gt_sal_freq[n]))
  /\ s1s' = Append(s1s, FrameS1(sal[n], peaks[n], gt_sal_freq[n]))
  /\ s3s' = IF Len(peaks[n]) >= 3
            THEN Append(s3s, FrameS3(sal[n], peaks[n], gt_sal_freq[n]))
            ELSE s3s
  /\ n' = n + 1
  /\ UNCHANGED <<inputs, gtfile, gt_file, saltype, sal_sep, pc, err, returned, gt_sal_freq>>

\* variant of ScoreFrame: rr is inserted at the front of rrs
ScoreFramePrepends ==
  /\ pc = "loop"
  /\ n <= Len(sal)
  /\ Voiced(gt_sal_freq[n])
  /\ n \notin fails
  /\ HasPeaks(peaks[n])
  /\ dfs' = Append(dfs, FrameDf(peaks[n], gt_sal_freq[n]))
  /\ rrs' = <<FrameRr(sal[n], peaks[n], gt_sal_freq[n])>> \o rrs
  /\ s1s' = Append(s1s, FrameS1(sal[n], peaks[n], gt_sal_freq[n]))
  /\ s3s' = Append(s3s, FrameS3(sal[n], peaks[n], gt_sal_freq[n]))
  /\ n' = n + 1
  /\ UNCHANGED <<inputs, gtfile, gt_file, saltype, sal_sep, pc, err, returned, gt_sal_freq>>

\* variant of ScoreFrame: s1 is normalised by the largest peak value met so
\* far in the pass, earlier frames included
ScoreFrameRunningMax ==
  /\ pc = "loop"
  /\ n <= Len(sal)
  /\ Voiced(gt_sal_freq[n])
  /\ n \notin fails
  /\ HasPeaks(peaks[n])
  /\ dfs' = Append(dfs, FrameDf(peaks[n], gt_sal_freq[n]))
  /\ rrs' = Append(rrs, FrameRr(sal[n], peaks[n], gt_sal_freq[n]))
  /\ s1s' = Append(s1s,
                   Div(ClosestVal(sal[n], peaks[n], gt_sal_freq[n]),
                       Max([i \in 1..n |->
                              IF Voiced(gt_sal_freq[i]) /\ HasPeaks(peaks[i])
                              THEN Max(Pvals(sal[i], peaks[i])) ELSE 0])))
  /\ s3s' = Append(s3s, FrameS3(sal[n], peaks[n], gt_sal_freq[n]))
  /\ n' = n + 1
  /\ UNCHANGED <<inputs, gtfile, gt_file, saltype, sal_sep, pc, err, returned, gt_sal_freq>>

ScoreFrame ==
  /\ pc = "loop"
  /\ n <= Len(sal)
  /\ Voiced(gt_sal_freq[n])
  /\ n \notin fails
  /\ HasPeaks(peaks[n])
  /\ dfs' = Append(dfs, FrameDf(peaks[n], gt_sal_freq[n]))
  /\ rrs' = Append(rrs, FrameRr(sal[n], peaks[n], gt_sal_freq[n]))
  /\ s1s' = Append(s1s, FrameS1(sal[n], peaks[n], gt_sal_freq[n]))
  /\ s3s' = Append(s3s, FrameS3(sal[n], peaks[n], gt_sal_freq[n]))
  /\ n' = n + 1
  /\ UNCHANGED <<inputs, gtfile, gt_file, saltype, sal_sep, pc, err, returned, gt_sal_freq>>

Return ==
  /\ pc = "loop"
  /\ n > Len(sal)
  /\ pc' = "done"
  /\ returned' = <<dfs, rrs, s1s, s3s>>
  /\ UNCHANGED <<inputs, gtfile, gt_file, saltype, sal_sep, err, n, gt_sal_freq,
                 dfs, rrs, s1s, s3s>>

Next ==
  \/ DefineGtfile
  \/ Call
  \/ CallUnboundSep
  \/ CallEmptyInput
  \/ CallNameError
  \/ CallLoadError
  \/ DetectorRaises
  \/ SkipUnvoiced
  \/ SkipNoPeaks
  \/ ScoreFrame
  \/ Return

Spec == Init /\ [][Next]_vars

SpecGlobal == InitGlobal /\ [][Next]_vars

SpecFrame == InitFrame /\ [][Next]_vars

SpecFrameClose == InitFrameClose /\ [][Next]_vars

TypeOK ==
  /\ pc \in {"idle", "loop", "done", "error"}
  /\ Len(peaks) = Len(sal)
  /\ n \in 0..(Len(sal) + 1)

\* ---------------------------------------------------------------- properties
Loaded == pc \in {"loop", "done"}

\* number of frames the loop has already visited
Visited == IF pc = "loop" THEN n - 1 ELSE IF pc = "done" THEN Len(sal) ELSE 0

\* the frames among the first m that are voiced in g and have >= 1 peak, in frame order
QualIdx(g, m) ==
  SelectSeq([i \in 1..m |-> i], LAMBDA i : g[i] > 0 /\ Len(peaks[i]) > 0)

Qual == QualIdx(gt_sal_freq, Visited)

Outputs == <<dfs, rrs, s1s, s3s>>

AllEmpty == dfs = <<>> /\ rrs = <<>> /\ s1s = <<>> /\ s3s = <<>>

\* C1: the four sequences have the same length, which is the number of visited
\* frames that are voiced and have at least one peak, and at most the frame count.
LengthInv ==
  Loaded =>
    /\ Len(dfs) = Len(Qual)
    /\ Len(rrs) = Len(dfs) /\ Len(s1s) = Len(dfs) /\ Len(s3s) = Len(dfs)
    /\ Len(dfs) <= Len(sal)

LengthWitness ==
  /\ pc = "done"
  /\ Len(sal) = 2
  /\ Len(dfs) = 1 /\ Len(s3s) = 1
  /\ gt_sal_freq[1] > 0 /\ peaks[1] = <<>>

\* C2: a step over an unvoiced frame leaves the four sequences unchanged, and
\* a call whose ground truth is unvoiced in every frame returns four empty ones.
UnvoicedStep ==
  (pc = "loop" /\ n <= Len(sal) /\ gt_sal_freq[n] <= 0) => (Outputs' = Outputs)

UnvoicedExcluded ==
  /\ [][UnvoicedStep]_vars
  /\ []((pc = "done" /\ \A i \in 1..Len(sal) : gt_sal_freq[i] <= 0) => AllEmpty)

UnvoicedWitness ==
  /\ pc = "done"
  /\ Len(sal) = 2
  /\ \A i \in 1..2 : gt_sal_freq[i] <= 0 /\ peaks[i] # <<>> /\ sal[i][peaks[i][1]] > 0
  /\ gt_sal_freq[1] = 0 /\ gt_sal_freq[2] < 0
  /\ AllEmpty

\* C3: when peak detection returns no index for any frame, a call that has
\* loaded its inputs runs to its return without error and returns four empty
\* sequences.
AllNoPeaks == fails = {} /\ \A i \in 1..Len(peaks) : peaks[i] = <<>>

NoPeaksEmpty ==
  /\ []((AllNoPeaks /\ Loaded) => AllEmpty)
  /\ [][(AllNoPeaks /\ pc = "loop") => (pc' \in {"loop", "done"})]_vars

NoPeaksWitness ==
  /\ pc = "done"
  /\ Len(sal) = 2
  /\ AllNoPeaks
  /\ \A i \in 1..2 : gt_sal_freq[i] > 0
  /\ AllEmpty

\* C4: the k-th entry of each sequence is the score of the k-th qualifying
\* frame in increasing frame index.
OrderInv ==
  Loaded =>
    /\ Len(dfs) = Len(Qual) /\ Len(rrs) = Len(Qual)
    /\ Len(s1s) = Len(Qual) /\ Len(s3s) = Len(Qual)
    /\ \A k \in 1..Len(Qual) :
         LET i == Qual[k] IN
         /\ dfs[k] = FrameDf(peaks[i], gt_sal_freq[i])
         /\ rrs[k] = FrameRr(sal[i], peaks[i], gt_sal_freq[i])
         /\ s1s[k] = FrameS1(sal[i], peaks[i], gt_sal_freq[i])
         /\ s3s[k] = FrameS3(sal[i], peaks[i], gt_sal_freq[i])

OrderWitness ==
  /\ pc = "done"
  /\ Len(dfs) = 2
  /\ \A out \in {dfs, rrs, s1s, s3s} :
       IsFinite(out[1]) /\ IsFinite(out[2]) /\ ~QEq(out[1], out[2])

\* C5: the call scores against the file named by its argument gt_file: what it
\* returns is what scoring the salience against that file gives.
ExpectedOutputs(g) ==
  LET q == QualIdx(g, Len(sal)) IN
  << [k \in 1..Len(q) |-> FrameDf(peaks[q[k]], g[q[k]])],
     [k \in 1..Len(q) |-> FrameRr(sal[q[k]], peaks[q[k]], g[q[k]])],
     [k \in 1..Len(q) |-> FrameS1(sal[q[k]], peaks[q[k]], g[q[k]])],
     [k \in 1..Len(q) |-> FrameS3(sal[q[k]], peaks[q[k]], g[q[k]])] >>

NoGlobalState == pc = "done" => Outputs = ExpectedOutputs(gtfiles[gt_file])

\* ---- per-frame properties: the k-th entry belongs to frame Qual[k]
SeqMax(v) == CHOOSE x \in {v[j] : j \in 1..Len(v)} : \A j \in 1..Len(v) : v[j] <= x

\* the frame of entry k as the claims describe it:
\*   vals    candidate peak values, in the order of the peak list
\*   pos     position in the peak list of the melody peak: the first candidate
\*           at minimal distance from the target bin
\*   melody  the melody peak's value;  max  the largest candidate value
Entry(k) ==
  LET i == Qual[k]
      pl == peaks[i]
      t == gt_sal_freq[i] - 1
      v == [j \in 1..Len(pl) |-> sal[i][pl[j]]]
      j0 == CHOOSE j \in 1..Len(pl) :
              /\ \A m \in 1..Len(pl) : Abs(pl[j] * Res - t) <= Abs(pl[m] * Res - t)
              /\ \A m \in 1..(j - 1) : Abs(pl[j] * Res - t) < Abs(pl[m] * Res - t)
  IN  [vals |-> v, pos |-> j0, melody |-> v[j0], max |-> SeqMax(v)]

Entries == 1..Len(Qual)
InUnit(q) == q[2] > 0 /\ q[1] > 0 /\ q[1] <= q[2]
IsOne(q) == q[2] # 0 /\ q[1] = q[2]
IsZero(q) == q[2] # 0 /\ q[1] = 0

\* C6: every rr entry is 1/rank with rank an integer between 1 and the number
\* of candidate peaks of its frame, hence in (0, 1].
RrRange ==
  Loaded =>
    /\ Len(rrs) = Len(Qual)
    /\ \A k \in Entries :
         /\ rrs[k][1] = 1
         /\ rrs[k][2] \in 1..Len(Entry(k).vals)
         /\ InUnit(rrs[k])

RrRangeWitness ==
  /\ pc = "done"
  /\ Len(rrs) = 1
  /\ LET e == Entry(1) IN
       /\ Len(e.vals) = 4
       /\ \E j \in 1..4 : j # e.pos /\ e.vals[j] = e.melody
  /\ rrs[1][2] = 3

\* C7 as stated: every s1 entry lies in (0, 1].
S1InUnit == Loaded => \A k \in 1..Len(s1s) : InUnit(s1s[k])

\* C7 amended: an s1 entry lies in (0, 1] when the melody peak's value is
\* positive; when that value is 0 the entry is 0 if some candidate peak of the
\* frame has a positive value and NaN (0/0) if all of them are 0.
S1Range ==
  Loaded =>
    /\ Len(s1s) = Len(Qual)
    /\ \A k \in Entries :
         LET e == Entry(k) IN
         /\ e.melody > 0 => InUnit(s1s[k])
         /\ (e.melody = 0 /\ e.max > 0) => IsZero(s1s[k])
         /\ e.max = 0 => IsNan(s1s[k])

S1RangeWitness ==
  /\ pc = "done"
  /\ Len(s1s) = 1
  /\ Entry(1).melody = 0
  /\ Entry(1).max > 0
  /\ IsZero(s1s[1])

\* C8 as stated: s1 = 1 iff the melody peak's value is strictly greater than
\* the value of every other candidate peak of the frame.
SingleHighest(e) ==
  \A j \in 1..Len(e.vals) : j # e.pos => e.vals[j] < e.melody

S1OneIffSingleHighest ==
  Loaded => \A k \in 1..Len(s1s) : IsOne(s1s[k]) <=> SingleHighest(Entry(k))

\* C8 amended: in a frame whose largest candidate peak value is positive,
\* s1 = 1 iff the melody peak's value equals that largest value (other peaks
\* may tie with it); in a frame whose candidate values are all 0, s1 is NaN.
S1OneIffMax ==
  Loaded =>
    /\ Len(s1s) = Len(Qual)
    /\ \A k \in Entries :
         LET e == Entry(k) IN
         /\ e.max > 0 => (IsOne(s1s[k]) <=> e.melody = e.max)
         /\ e.max = 0 => IsNan(s1s[k])

S1OneWitness ==
  /\ pc = "done"
  /\ Len(s1s) = 1
  /\ IsOne(s1s[1])
  /\ ~SingleHighest(Entry(1))
  /\ Len(Entry(1).vals) >= 3

\* C9: rank is a 1-based position of the melody peak's value in the descending
\* order of the frame's candidate values and rr = 1/rank; two peaks with values
\* 0.8 (melody) and 1.0 (here 4 and 5) give rr = 1/2 and s1 = 0.8.
NumAbove(e) == Cardinality({j \in 1..Len(e.vals) : e.vals[j] > e.melody})
NumAtLeast(e) == Cardinality({j \in 1..Len(e.vals) : e.vals[j] >= e.melody})

RankDescending ==
  Loaded =>
    /\ Len(rrs) = Len(Qual) /\ Len(s1s) = Len(Qual)
    /\ \A k \in Entries :
         LET e == Entry(k) IN
         /\ rrs[k][1] = 1
         /\ NumAbove(e) < rrs[k][2]
         /\ rrs[k][2] <= NumAtLeast(e)
         /\ (Len(e.vals) = 2 /\ e.melody = 4 /\ e.max = 5)
              => (rrs[k] = <<1, 2>> /\ QEq(s1s[k], <<8, 10>>))

RankDescendingWitness ==
  /\ pc = "done"
  /\ Len(rrs) = 1
  /\ Len(Entry(1).vals) = 2 /\ Entry(1).melody = 4 /\ Entry(1).max = 5
  /\ rrs[1] = <<1, 2>>
  /\ QEq(s1s[1], <<8, 10>>)

\* number and sum of the values averaged in the s3 denominator: the 3 largest
\* candidate values, or all of them when there are fewer than 3
TopCount(v) == IF Len(v) >= 3 THEN 3 ELSE Len(v)
TopSum(v) ==
  LET s == Sorted(v)
      L == Len(v)
  IN  IF L >= 3 THEN s[L] + s[L - 1] + s[L - 2] ELSE Sum(v)

S3Formula(e, s3) == s3 = <<e.melody * TopCount(e.vals), TopSum(e.vals)>>

S3Example(e, s3) ==
  (Len(e.vals) = 3 /\ e.melody = 3 /\ Sum(e.vals) = 17 /\ e.max = 9)
  => QEq(s3, <<9, 17>>)

\* C10 as stated: s3 = melody value / mean(3 largest values) with >= 3 peaks,
\* melody value / mean(all values) with 1 or 2; a single-peak frame gives
\* s3 = 1, and peaks 0.3 (melody), 0.5, 0.9 give 0.3/mean(0.3, 0.5, 0.9).
S3AsStated ==
  Loaded =>
    \A k \in 1..Len(s3s) :
      LET e == Entry(k) IN
      /\ S3Formula(e, s3s[k])
      /\ Len(e.vals) = 1 => IsOne(s3s[k])
      /\ S3Example(e, s3s[k])

\* C10 amended: the same, where a single-peak frame gives s3 = 1 when its
\* peak's value is positive and NaN (0/0) when that value is 0.
S3Definition ==
  Loaded =>
    /\ Len(s3s) = Len(Qual)
    /\ \A k \in Entries :
         LET e == Entry(k) IN
         /\ S3Formula(e, s3s[k])
         /\ (Len(e.vals) = 1 /\ e.melody > 0) => IsOne(s3s[k])
         /\ (Len(e.vals) = 1 /\ e.melody = 0) => IsNan(s3s[k])
         /\ S3Example(e, s3s[k])

S3Witness ==
  /\ pc = "done"
  /\ Len(s3s) = 1
  /\ Len(Entry(1).vals) = 4
  /\ Entry(1).melody = 3
  /\ Sum(Entry(1).vals) = 17
  /\ s3s[1] = <<9, 17>>

\* ---- s3 against 1 and against s1
Exceeds1(q) == q[2] > 0 /\ q[1] > q[2]
QLeq(p, q) == IsFinite(p) /\ IsFinite(q) /\ p[1] * q[2] <= q[1] * p[2]
\* the smallest of the values averaged in the s3 denominator
TopMin(v) == IF Len(v) >= 3 THEN Sorted(v)[Len(v) - 2] ELSE Sorted(v)[1]

\* C11 as stated: s3 exceeds 1 only in a frame with fewer than 3 candidate
\* peaks whose melody peak is the maximum; with at least 3 peaks s3 is in (0, 1].
S3ExceedsOnlyFewPeaks ==
  Loaded =>
    \A k \in 1..Len(s3s) :
      LET e == Entry(k) IN
      /\ Exceeds1(s3s[k]) => (Len(e.vals) < 3 /\ e.melody = e.max)
      /\ Len(e.vals) >= 3 => InUnit(s3s[k])

\* C11 amended: s3 exceeds 1 exactly when the melody peak's value is greater
\* than the mean of the values averaged in the denominator (the 3 largest, or
\* all with fewer than 3); this needs at least 2 candidate peaks and a melody
\* value above the smallest averaged value, and it happens with 3 or more
\* peaks too; where the largest candidate value is positive, s3 lies between 0 and the
\* number of averaged values.
S3ExceedsIffAboveMean ==
  Loaded =>
    /\ Len(s3s) = Len(Qual)
    /\ \A k \in Entries :
         LET e == Entry(k) IN
         /\ Exceeds1(s3s[k]) <=> (e.melody * TopCount(e.vals) > TopSum(e.vals))
         /\ Exceeds1(s3s[k]) => (Len(e.vals) >= 2 /\ e.melody > TopMin(e.vals))
         /\ e.max > 0 => (QLeq(<<0, 1>>, s3s[k]) /\ QLeq(s3s[k], <<TopCount(e.vals), 1>>))

S3ExceedsWitness ==
  /\ pc = "done"
  /\ Len(s3s) = 1
  /\ Len(Entry(1).vals) = 4
  /\ Entry(1).melody < Entry(1).max
  /\ Exceeds1(s3s[1])

NumMax(e) == Cardinality({j \in 1..Len(e.vals) : e.vals[j] = e.max})

RankCountsTiesAsStated ==
  Loaded =>
    \A k \in 1..Len(rrs) :
      LET e == Entry(k) IN
      /\ rrs[k] = <<1, NumAtLeast(e)>>
      /\ e.melody = e.max => (rrs[k] = <<1, NumMax(e)>> /\ IsOne(s1s[k]))

\* C16 amended: the same, where s1 = 1 needs the tied maximum to be positive
\* (when it is 0, s1 is NaN).
RankCountsTies ==
  Loaded =>
    /\ Len(rrs) = Len(Qual) /\ Len(s1s) = Len(Qual)
    /\ \A k \in Entries :
         LET e == Entry(k) IN
         /\ rrs[k] = <<1, NumAtLeast(e)>>
         /\ e.melody = e.max => rrs[k] = <<1, NumMax(e)>>
         /\ (e.melody = e.max /\ e.max > 0) => IsOne(s1s[k])
         /\ (e.melody = e.max /\ e.max = 0) => IsNan(s1s[k])

RankCountsTiesWitness ==
  /\ pc = "done"
  /\ Len(rrs) = 1
  /\ Len(Entry(1).vals) = 4
  /\ Entry(1).melody = Entry(1).max
  /\ rrs[1] = <<1, 3>>
  /\ IsOne(s1s[1])

\* C17 as stated: with a positive largest candidate value, s3 >= s1, with
\* equality exactly when the values averaged in the s3 denominator are all
\* equal to the maximum.
TopAllMax(e) == TopSum(e.vals) = TopCount(e.vals) * e.max

S3AtLeastS1AsStated ==
  Loaded =>
    \A k \in 1..Len(s3s) :
      LET e == Entry(k) IN
      e.max > 0 =>
        /\ QLeq(s1s[k], s3s[k])
        /\ QEq(s1s[k], s3s[k]) <=> TopAllMax(e)

\* C17 amended: equality holds exactly when the melody peak's value is 0 (both
\* scores are then 0) or the averaged values are all equal to the maximum.
S3AtLeastS1 ==
  Loaded =>
    /\ Len(s3s) = Len(Qual) /\ Len(s1s) = Len(Qual)
    /\ \A k \in Entries :
         LET e == Entry(k) IN
         e.max > 0 =>
           /\ QLeq(s1s[k], s3s[k])
           /\ QEq(s1s[k], s3s[k]) <=> (e.melody = 0 \/ TopAllMax(e))

S3AtLeastS1Witness ==
  /\ pc = "done"
  /\ Len(s3s) = 1
  /\ Len(Entry(1).vals) = 4
  /\ Entry(1).melody > 0
  /\ TopAllMax(Entry(1))
  /\ Entry(1).melody < Entry(1).max
  /\ QEq(s1s[1], s3s[1])

\* ---- failures
Ended == pc \in {"done", "error"}
NoSequences == returned = <<>>
FourEmpty == returned = << <<>>, <<>>, <<>>, <<>> >>

CollaboratorRaised ==
  \/ err = LoadError /\ n = 0 /\ (sal = <<>> \/ (gtfile # Undefined /\ gtfile \in unreadable))
  \/ err = DetectorError /\ n \in fails /\ Voiced(gt_sal_freq[n])

ErrorPropagates ==
  /\ (pc = "error" /\ sal_sep # Undefined /\ gtfile # Undefined) =>
       (CollaboratorRaised /\ NoSequences)
  /\ Loaded =>
       /\ gtfile \notin unreadable
       /\ \A i \in 1..Visited : Voiced(gt_sal_freq[i]) => i \notin fails
  /\ pc # "done" => NoSequences

\* the detector raises after a frame has been scored
ErrorPropagatesWitness ==
  /\ pc = "error"
  /\ err = DetectorError
  /\ n = 2
  /\ Len(dfs) = 1 /\ Len(s3s) = 1
  /\ NoSequences

\* C15: the entry of a qualifying frame depends on that frame alone: two frames
\* with the same salience vector, peaks and ground-truth frequency have the
\* same entry, and evaluating the frames in any order, each result placed at
\* its frame index, gives the four sequences of the sequential pass.
Orders(m) == {f \in [1..m -> 1..m] : \A i, j \in 1..m : i # j => f[i] # f[j]}

\* the entry of frame i on its own; <<>> when the frame does not qualify
Evaluate(i) ==
  IF Voiced(gt_sal_freq[i]) /\ HasPeaks(peaks[i])
  THEN << FrameDf(peaks[i], gt_sal_freq[i]), FrameRr(sal[i], peaks[i], gt_sal_freq[i]),
          FrameS1(sal[i], peaks[i], gt_sal_freq[i]), FrameS3(sal[i], peaks[i], gt_sal_freq[i]) >>
  ELSE <<>>

\* the slots after evaluating the frames order[j..] one after the other
RECURSIVE Scatter(_, _, _)
Scatter(slots, order, j) ==
  IF j > Len(order) THEN slots
  ELSE Scatter([slots EXCEPT ![order[j]] = Evaluate(order[j])], order, j + 1)

Gather(slots) ==
  LET q == SelectSeq([i \in 1..Len(slots) |-> i], LAMBDA i : slots[i] # <<>>)
  IN  << [k \in 1..Len(q) |-> slots[q[k]][1]], [k \in 1..Len(q) |-> slots[q[k]][2]],
         [k \in 1..Len(q) |-> slots[q[k]][3]], [k \in 1..Len(q) |-> slots[q[k]][4]] >>

SameFrame(i, j) ==
  sal[i] = sal[j] /\ peaks[i] = peaks[j] /\ gt_sal_freq[i] = gt_sal_freq[j]

FramesIndependent ==
  /\ Loaded =>
       /\ Len(dfs) = Len(Qual) /\ Len(rrs) = Len(Qual)
       /\ Len(s1s) = Len(Qual) /\ Len(s3s) = Len(Qual)
       /\ \A k1, k2 \in Entries :
            SameFrame(Qual[k1], Qual[k2]) =>
              /\ dfs[k1] = dfs[k2] /\ rrs[k1] = rrs[k2]
              /\ s1s[k1] = s1s[k2] /\ s3s[k1] = s3s[k2]
  /\ pc = "done" =>
       \A order \in Orders(Len(sal)) :
         Gather(Scatter([i \in 1..Len(sal) |-> <<>>], order, 1)) = returned

\* two qualifying frames, the second with the smaller maximum
FramesIndependentWitness ==
  /\ pc = "done"
  /\ Len(sal) >= 2
  /\ Len(returned[3]) = 2
  /\ Max(Pvals(sal[Qual[2]], peaks[Qual[2]])) < Max(Pvals(sal[Qual[1]], peaks[Qual[1]]))
  /\ IsOne(returned[3][2])

\* C18: with a saltype that is neither 'melodia' nor 'durrieu' no delimiter is
\* bound; the call fails at the first read_csv, before any frame is processed,
\* and returns no sequences.
UnknownSaltype == saltype # Undefined /\ saltype \notin {"melodia", "durrieu"}

UnknownSaltypeFails ==
  /\ UnknownSaltype =>
       /\ sal_sep = Undefined
       /\ pc = "error" /\ err = UnboundLocalError
       /\ n = 0 /\ gt_sal_freq = <<>> /\ AllEmpty
       /\ NoSequences
  /\ (saltype # Undefined /\ ~UnknownSaltype) => (sal_sep # Undefined /\ err # UnboundLocalError)

UnknownSaltypeWitness ==
  /\ UnknownSaltype
  /\ pc = "error"
  /\ sal # <<>>
  /\ gtfile # Undefined /\ gtfile \notin unreadable
  /\ \E i \in 1..Len(sal) : Voiced(gtfiles[gtfile][i]) /\ HasPeaks(peaks[i])
====
